---------------------------- MODULE Spec2Model ----------------------------
(* A model of BinanceWebSocketManager (src/src/connectors/binance-ws.ts):  *)
(* per-symbol sockets, subscriptions, handler registry, reconnect timers   *)
(* and keepalive intervals, driven by the public methods and by the socket *)
(* and timer events of the node event loop.                                *)
EXTENDS Integers, Sequences, FiniteSets, TLC

VARIABLES
    connections,      \* Map<string, WebSocket>: symbol -> socket id
    pingIntervals,    \* Map<string, Timeout>: symbol -> interval handle
    messageCallbacks, \* Map<string, Map<kind, handler[]>>
    subscriptions,    \* Map<string, StreamSubscription>: symbol -> object id
    subs,             \* the StreamSubscription objects still referenced
    sockets,          \* the WebSocket objects that have not yet closed
    timers,           \* pending setTimeout handles
    intervals,        \* running setInterval handles
    nSubscribes,      \* number of subscribe calls made so far
    nRegs,            \* number of onStreamData registrations made so far
    revoked,          \* registrations held for a symbol when unsubscribe
                      \* or close() dropped its handler map
    running,          \* the node process has not died of an uncaught error
    out,              \* what the last step did that a caller can observe
    restConnector     \* BinanceRestConnector: the request in progress

vars == <<connections, pingIntervals, messageCallbacks, subscriptions, subs,
          sockets, timers, intervals, nSubscribes, nRegs, revoked,
          running, out, restConnector>>

-----------------------------------------------------------------------------
(* Bounds of the model.                                                    *)

MaxSubscribes == 2
MaxRegs == 2
MaxLen == 2
MaxFetches == 2

(* Program constants.                                                      *)

MAX_RECONNECT_ATTEMPTS == 5
RECONNECT_DELAY == 5000
HTTP_MAX_RETRIES == 3
HTTP_RETRY_DELAY == 1000

-----------------------------------------------------------------------------
(* Strings are sequences of atoms; the delimiters "@", "/" and "#" are     *)
(* atoms of their own, so that splitting and joining are computed.         *)

Str(a) == <<a>>

RECURSIVE Concat(_)
Concat(ss) == IF ss = <<>> THEN <<>> ELSE Head(ss) \o Concat(Tail(ss))

toLowerCaseAtom(a) ==
    CASE a = "BTCUSDT" -> "btcusdt"
      [] a = "ETHUSDT" -> "ethusdt"
      [] a = "BAD" -> "bad"
      [] OTHER -> a

toLowerCase(s) == [i \in 1..Len(s) |-> toLowerCaseAtom(s[i])]

RECURSIVE join(_, _)
join(ss, sep) ==
    IF ss = <<>> THEN <<>>
    ELSE IF Len(ss) = 1 THEN ss[1]
    ELSE ss[1] \o sep \o join(Tail(ss), sep)

(* String.prototype.split: the pieces between occurrences of sep.          *)
RECURSIVE split(_, _)
split(s, sep) ==
    IF \A i \in 1..Len(s) : s[i] # sep THEN <<s>>
    ELSE LET p == CHOOSE i \in 1..Len(s) :
                      s[i] = sep /\ \A j \in 1..(i - 1) : s[j] # sep
         IN  <<SubSeq(s, 1, p - 1)>> \o split(SubSeq(s, p + 1, Len(s)), sep)

-----------------------------------------------------------------------------
(* Maps are functions whose domain is the set of keys present.             *)

EmptyMap == [x \in {} |-> {}]
Has(m, k) == k \in DOMAIN m
MapSet(m, k, v) == [x \in (DOMAIN m) \cup {k} |-> IF x = k THEN v ELSE m[x]]
MapDelete(m, k) == [x \in (DOMAIN m) \ {k} |-> m[x]]


-----------------------------------------------------------------------------
(* Inputs.                                                                 *)

SPOT_WS_URL == <<"wss://stream.binance.com:9443/ws">>
FUTURES_WS_URL == <<"wss://fstream.binance.com/ws">>

BTC == Str("BTCUSDT")
ETH == Str("ETHUSDT")
BAD == <<"BAD", "#">>

Symbols == {BTC, ETH, BAD}
MarketTypes == {"spot", "futures"}

StreamEventTypes ==
    {Str("trade"), Str("ticker"), Str("bookTicker"), Str("kline"),
     Str("depth"), Str("forceOrder"), Str("markPrice"), Str("openInterest")}

(* The subscribe calls the lifecycle specification makes.                  *)
Request(symbol, type, streams) ==
    [symbol |-> symbol, type |-> type, streams |-> streams]

Requests ==
    {Request(BTC, "spot", <<Str("trade"), Str("ticker")>>),
     Request(BTC, "futures", <<Str("markPrice")>>),
     Request(ETH, "futures", <<Str("markPrice")>>),
     Request(BAD, "spot", <<Str("trade"), Str("ticker")>>)}

(* The calls and frames the routing specification makes and delivers. The *)
(* key of a registration is a string at run time: a caller can pass one    *)
(* that is no stream kind.                                                 *)
RoutingRequests == {Request(ETH, "futures", <<Str("markPrice")>>)}

HandlerSymbols == {ETH}

Registration(streamType, handler) ==
    [streamType |-> streamType, handler |-> handler]

Registrations ==
    {Registration(Str("markPrice"), "h1"),
     Registration(Str("markPrice"), "hThrow"),
     Registration(<<"markPrice", "@", "1s">>, "h1")}

Throws(h) == h = "hThrow"

NoTimer == [sub |-> 0, delay |-> 0]
NoSocket == <<0, 0>>
NoData == <<>>
NoFrame == [parses |-> FALSE, hasStream |-> FALSE, stream |-> <<"-">>,
            data |-> NoData]
NoPing == [to |-> NoSocket, error |-> FALSE]
NoTool == [name |-> "none", arguments |-> <<>>, called |-> <<>>,
           error |-> "none"]
NoOut == [calls |-> <<>>, args |-> <<>>, raised |-> FALSE, from |-> NoSocket,
          frame |-> NoFrame, ping |-> NoPing, tool |-> NoTool]

(* The REST connector while no request is in progress. A request records   *)
(* the outcome of each invocation of its operation, the delays waited      *)
(* between them, and what the public method settled with.                  *)
NoSettle == [kind |-> "none", of |-> 0, message |-> "none"]
NoRequest == [pc |-> "idle", fetch |-> "none", fetches |-> 0, retries |-> 0,
              outcomes |-> <<>>, delays |-> <<>>, settled |-> NoSettle]

-----------------------------------------------------------------------------
(* The ws library and the node timers, as far as the manager uses them.    *)

(* new WebSocket(url) throws a SyntaxError on a URL with a fragment.       *)
WebSocketThrows(url) ==
    \E i \in 1..Len(url) : url[i] = "#" /\ i < Len(url)

(* ws.close(): starts the closing handshake; the close event comes later.  *)
wsClose(socks, w) ==
    IF socks[w].readyState \in {"CONNECTING", "OPEN"}
    THEN [socks EXCEPT ![w].readyState = "CLOSING"]
    ELSE socks

-----------------------------------------------------------------------------
(* The manager's fields as one record, so that the private methods can be  *)
(* composed in the order the code calls them.                              *)

This ==
    [connections |-> connections, pingIntervals |-> pingIntervals,
     messageCallbacks |-> messageCallbacks, subscriptions |-> subscriptions,
     subs |-> subs, sockets |-> sockets, timers |-> timers,
     intervals |-> intervals, raised |-> FALSE]

(* The subscription objects something still refers to: the subscriptions  *)
(* map, a socket's listeners or a pending timer's callback. The others are *)
(* dropped. A handle whose timer has run or was cleared is inert           *)
(* (clearTimeout on it does nothing): the field holding it reads NoTimer.  *)
Referenced(m) ==
    {m.subscriptions[x] : x \in DOMAIN m.subscriptions}
        \cup {m.sockets[w].sub : w \in DOMAIN m.sockets}
        \cup {h.sub : h \in m.timers}

Becomes(m) ==
    /\ connections' = m.connections
    /\ pingIntervals' = m.pingIntervals
    /\ messageCallbacks' = m.messageCallbacks
    /\ subscriptions' = m.subscriptions
    /\ subs' = [i \in Referenced(m) |->
                    [m.subs[i] EXCEPT !.reconnectTimeout =
                        IF @ \in m.timers THEN @ ELSE NoTimer]]
    /\ sockets' = m.sockets
    /\ timers' = m.timers
    /\ intervals' = m.intervals

Effects(m) == [NoOut EXCEPT !.raised = m.raised]

RECURSIVE pow2(_)
pow2(n) == IF n = 0 THEN 1 ELSE 2 * pow2(n - 1)

(* RECONNECT_DELAY * Math.pow(2, e), e possibly negative.                  *)
backoffDelay(e) ==
    IF e >= 0 THEN RECONNECT_DELAY * pow2(e) ELSE RECONNECT_DELAY \div pow2(-e)

(* handleReconnection giving up one attempt late (> for >=).               *)
handleReconnectionPastMax(m, i) ==
    LET reconnectAttempts == m.subs[i].reconnectAttempts
        delay == backoffDelay(reconnectAttempts - 1)
        handle == [sub |-> i, delay |-> delay]
    IN  IF reconnectAttempts > MAX_RECONNECT_ATTEMPTS THEN m
        ELSE [m EXCEPT
                !.subs[i].reconnectAttempts = reconnectAttempts + 1,
                !.subs[i].reconnectTimeout = handle,
                !.timers = @ \cup {handle}]

(* handleReconnection giving up one attempt early.                         *)
handleReconnectionOneShort(m, i) ==
    LET reconnectAttempts == m.subs[i].reconnectAttempts
        delay == backoffDelay(reconnectAttempts - 1)
        handle == [sub |-> i, delay |-> delay]
    IN  IF reconnectAttempts >= MAX_RECONNECT_ATTEMPTS - 1 THEN m
        ELSE [m EXCEPT
                !.subs[i].reconnectAttempts = reconnectAttempts + 1,
                !.subs[i].reconnectTimeout = handle,
                !.timers = @ \cup {handle}]

handleReconnection(m, i) ==
    LET reconnectAttempts == m.subs[i].reconnectAttempts
        delay == backoffDelay(reconnectAttempts - 1)
        handle == [sub |-> i, delay |-> delay]
    IN  IF reconnectAttempts >= MAX_RECONNECT_ATTEMPTS THEN m
        ELSE [m EXCEPT
                !.subs[i].reconnectAttempts = reconnectAttempts + 1,
                !.subs[i].reconnectTimeout = handle,
                !.timers = @ \cup {handle}]

(* cleanup clearing every pending reconnect timer, of any symbol.          *)
cleanupClearingAllTimers(m, symbol) ==
    LET m1 == IF Has(m.pingIntervals, symbol)
              THEN [m EXCEPT !.intervals = @ \ {m.pingIntervals[symbol]},
                             !.pingIntervals = MapDelete(@, symbol)]
              ELSE m
    IN  [m1 EXCEPT !.timers = {}, !.connections = MapDelete(@, symbol)]

cleanup(m, symbol) ==
    LET m1 == IF Has(m.pingIntervals, symbol)
              THEN [m EXCEPT !.intervals = @ \ {m.pingIntervals[symbol]},
                             !.pingIntervals = MapDelete(@, symbol)]
              ELSE m
        m2 == IF /\ Has(m1.subscriptions, symbol)
                 /\ m1.subs[m1.subscriptions[symbol]].reconnectTimeout # NoTimer
              THEN [m1 EXCEPT !.timers =
                        @ \ {m1.subs[m1.subscriptions[symbol]].reconnectTimeout}]
              ELSE m1
    IN  [m2 EXCEPT !.connections = MapDelete(@, symbol)]

(* streamName without the futures update-speed suffix.                     *)
streamNameUnsuffixed(symbol, type, stream) ==
    toLowerCase(symbol) \o <<"@">> \o stream

streamName(symbol, type, stream) ==
    IF type = "futures"
    THEN CASE stream = Str("forceOrder") ->
                  toLowerCase(symbol) \o <<"@">> \o Str("forceOrder")
           [] stream = Str("markPrice") ->
                  toLowerCase(symbol) \o <<"@">> \o <<"markPrice", "@", "1s">>
           [] stream = Str("openInterest") ->
                  toLowerCase(symbol) \o <<"@">> \o <<"openInterest", "@", "1s">>
           [] OTHER -> toLowerCase(symbol) \o <<"@">> \o stream
    ELSE toLowerCase(symbol) \o <<"@">> \o stream

connectionUrl(symbol, type, streams) ==
    LET wsUrl == IF type = "spot" THEN SPOT_WS_URL ELSE FUTURES_WS_URL
        streamNames == [k \in 1..Len(streams) |->
                            streamName(symbol, type, streams[k])]
    IN  wsUrl \o <<"/">> \o join(streamNames, <<"/">>)

(* The new socket object: named after the subscription its listeners      *)
(* close over, and numbered among that subscription's open sockets.        *)
newSocket(m, i) ==
    <<i, CHOOSE k \in 1..(Cardinality(DOMAIN m.sockets) + 1) :
             /\ <<i, k>> \notin DOMAIN m.sockets
             /\ \A j \in 1..(k - 1) : <<i, j>> \in DOMAIN m.sockets>>

connectWebSocket(m, i) ==
    LET subscription == m.subs[i]
        url == connectionUrl(subscription.symbol, subscription.type,
                             subscription.streams)
        w == newSocket(m, i)
        ws == [symbol |-> subscription.symbol, sub |-> i, url |-> url,
               readyState |-> "CONNECTING", opened |-> FALSE]
    IN  IF WebSocketThrows(url)
        THEN [handleReconnection(m, i) EXCEPT !.raised = TRUE]
        ELSE [m EXCEPT !.sockets = MapSet(@, w, ws),
                       !.connections = MapSet(@, subscription.symbol, w)]

-----------------------------------------------------------------------------
(* Message routing.                                                        *)

(* An inbound frame: text that JSON.parse accepts or not, the parsed       *)
(* envelope's stream name (absent when the envelope has no such field) and *)
(* its data, here a payload naming the stream it was published on.         *)
Frame(stream) ==
    [parses |-> TRUE, hasStream |-> TRUE, stream |-> stream,
     data |-> <<"data of">> \o stream]
Unparseable ==
    [parses |-> FALSE, hasStream |-> FALSE, stream |-> <<>>, data |-> NoData]
NoStreamField ==
    [parses |-> TRUE, hasStream |-> FALSE, stream |-> <<>>,
     data |-> <<"data">>]

(* routedKind keeping everything after the first "@" as the kind.         *)
routedKindWithSuffix(stream) ==
    LET streamParts == split(stream, "@")
    IN  IF Len(streamParts) < 2 THEN <<"?">>
        ELSE join(Tail(streamParts), <<"@">>)

(* The stream kind handleStreamMessage routes a stream name to; <<"?">>    *)
(* when it returns before routing.                                         *)
NoKind == <<"?">>
routedKind(stream) ==
    LET streamParts == split(stream, "@")
    IN  IF Len(streamParts) < 2 THEN NoKind
        ELSE IF Len(streamParts) > 2
             THEN split(streamParts[2], "@")[1]
             ELSE streamParts[2]

(* invokeHandlers without the try block around each call: the first       *)
(* throwing handler ends the loop.                                         *)
RECURSIVE invokeHandlersUncaught(_, _)
invokeHandlersUncaught(handlers, data) ==
    IF handlers = <<>> THEN [calls |-> <<>>, args |-> <<>>, raised |-> FALSE]
    ELSE IF Throws(Head(handlers).h)
         THEN [calls |-> <<Head(handlers)>>, args |-> <<data>>, raised |-> TRUE]
         ELSE LET rest == invokeHandlersUncaught(Tail(handlers), data)
              IN  [calls |-> <<Head(handlers)>> \o rest.calls,
                   args |-> <<data>> \o rest.args,
                   raised |-> rest.raised]

(* handlers.forEach: each handler is called with message.data inside its   *)
(* own try block, so a throwing handler is logged and the loop goes on.    *)
RECURSIVE invokeHandlers(_, _)
invokeHandlers(handlers, data) ==
    IF handlers = <<>> THEN [calls |-> <<>>, args |-> <<>>, raised |-> FALSE]
    ELSE LET rest == invokeHandlers(Tail(handlers), data)
         IN  [calls |-> <<Head(handlers)>> \o rest.calls,
              args |-> <<data>> \o rest.args,
              raised |-> rest.raised]

handleStreamMessage(callbacks, symbol, message) ==
    IF ~Has(callbacks, symbol) THEN invokeHandlers(<<>>, message.data)
    ELSE LET symbolCallbacks == callbacks[symbol]
             streamType == routedKind(message.stream)
         IN  IF streamType = NoKind THEN invokeHandlers(<<>>, message.data)
             ELSE IF Has(symbolCallbacks, streamType)
                  THEN invokeHandlers(symbolCallbacks[streamType], message.data)
                  ELSE invokeHandlers(<<>>, message.data)

(* onMessage without the try block: the error of JSON.parse, or of reading *)
(* a stream name that is not there, leaves the listener.                   *)
onMessageUncaught(callbacks, symbol, frame) ==
    IF ~frame.parses \/ ~frame.hasStream THEN [NoOut EXCEPT !.raised = TRUE]
    ELSE LET handled == handleStreamMessage(callbacks, symbol, frame)
         IN  [NoOut EXCEPT !.calls = handled.calls, !.args = handled.args]

(* The socket's message listener: parse, then route; any error is caught.  *)
onMessage(callbacks, symbol, frame) ==
    IF ~frame.parses \/ ~frame.hasStream THEN NoOut
    ELSE LET handled == handleStreamMessage(callbacks, symbol, frame)
         IN  [NoOut EXCEPT !.calls = handled.calls, !.args = handled.args]

-----------------------------------------------------------------------------
(* Initial state: the constructor.                                         *)

Init ==
    /\ connections = EmptyMap
    /\ pingIntervals = EmptyMap
    /\ messageCallbacks = EmptyMap
    /\ subscriptions = EmptyMap
    /\ subs = EmptyMap
    /\ sockets = EmptyMap
    /\ timers = {}
    /\ intervals = {}
    /\ nSubscribes = 0
    /\ nRegs = 0
    /\ revoked = {}
    /\ running = TRUE
    /\ out = NoOut
    /\ restConnector = NoRequest

(* Registrations currently held for a symbol.                              *)
RegsOf(callbacks, symbol) ==
    IF ~Has(callbacks, symbol) THEN {}
    ELSE UNION {{callbacks[symbol][k][j] : j \in 1..Len(callbacks[symbol][k])} :
                    k \in DOMAIN callbacks[symbol]}

-----------------------------------------------------------------------------
(* Public methods.                                                         *)

(* withStreams giving every requested stream a fresh, empty list.          *)
RECURSIVE withStreamsReset(_, _)
withStreamsReset(symbolCallbacks, streams) ==
    IF streams = <<>> THEN symbolCallbacks
    ELSE withStreamsReset(MapSet(symbolCallbacks, Head(streams), <<>>),
                          Tail(streams))

RECURSIVE withStreams(_, _)
withStreams(symbolCallbacks, streams) ==
    IF streams = <<>> THEN symbolCallbacks
    ELSE withStreams(
             IF Has(symbolCallbacks, Head(streams)) THEN symbolCallbacks
             ELSE MapSet(symbolCallbacks, Head(streams), <<>>),
             Tail(streams))

(* Subscription object i is the one the i-th subscribe call creates.       *)
subscribe(m, i, symbol, type, streams) ==
    LET subscription == [symbol |-> symbol, type |-> type, streams |-> streams,
                         reconnectAttempts |-> 0, reconnectTimeout |-> NoTimer]
        symbolCallbacks == IF Has(m.messageCallbacks, symbol)
                           THEN m.messageCallbacks[symbol] ELSE EmptyMap
        m1 == [m EXCEPT
                 !.messageCallbacks =
                     MapSet(@, symbol, withStreams(symbolCallbacks, streams)),
                 !.subs = MapSet(@, i, subscription),
                 !.subscriptions = MapSet(@, symbol, i)]
    IN  connectWebSocket(m1, i)

Subscribe(symbol, type, streams) ==
    /\ running
    /\ nSubscribes < MaxSubscribes
    /\ nSubscribes' = nSubscribes + 1
    /\ LET m == subscribe(This, nSubscribes + 1, symbol, type, streams)
       IN  /\ Becomes(m)
           /\ out' = Effects(m)
    /\ UNCHANGED <<nRegs, revoked, running>>
    /\ UNCHANGED restConnector

onStreamData(m, symbol, streamType, handler) ==
    IF ~Has(m.messageCallbacks, symbol) THEN m
    ELSE LET symbolCallbacks == m.messageCallbacks[symbol]
             handlers == IF Has(symbolCallbacks, streamType)
                         THEN symbolCallbacks[streamType] ELSE <<>>
         IN  [m EXCEPT !.messageCallbacks[symbol] =
                 MapSet(symbolCallbacks, streamType, Append(handlers, handler))]

OnStreamData(symbol, streamType, h) ==
    /\ running
    /\ nRegs < MaxRegs
    /\ Becomes(onStreamData(This, symbol, streamType,
                            [h |-> h, reg |-> nRegs + 1,
                             symbol |-> symbol, kind |-> streamType]))
    /\ nRegs' = nRegs + 1
    /\ out' = NoOut
    /\ UNCHANGED <<nSubscribes, revoked, running>>
    /\ UNCHANGED restConnector

(* unsubscribe leaving the symbol's handler map in place.                  *)
unsubscribeKeepingHandlers(m, symbol) ==
    LET m1 == IF Has(m.connections, symbol)
              THEN [m EXCEPT !.sockets = wsClose(@, m.connections[symbol])]
              ELSE m
        m2 == cleanup(m1, symbol)
    IN  [m2 EXCEPT !.subscriptions = MapDelete(@, symbol)]

(* unsubscribe clearing the subscription and handler maps as close() does. *)
unsubscribeClearingAll(m, symbol) ==
    LET m1 == IF Has(m.connections, symbol)
              THEN [m EXCEPT !.sockets = wsClose(@, m.connections[symbol])]
              ELSE m
        m2 == cleanup(m1, symbol)
    IN  [m2 EXCEPT !.subscriptions = EmptyMap,
                   !.messageCallbacks = EmptyMap]

unsubscribe(m, symbol) ==
    LET m1 == IF Has(m.connections, symbol)
              THEN [m EXCEPT !.sockets = wsClose(@, m.connections[symbol])]
              ELSE m
        m2 == cleanup(m1, symbol)
    IN  [m2 EXCEPT !.subscriptions = MapDelete(@, symbol),
                   !.messageCallbacks = MapDelete(@, symbol)]

Unsubscribe(symbol) ==
    /\ running
    /\ Becomes(unsubscribe(This, symbol))
    /\ revoked' = revoked \cup RegsOf(messageCallbacks, symbol)
    /\ out' = NoOut
    /\ UNCHANGED <<nSubscribes, nRegs, running>>
    /\ UNCHANGED restConnector

(* connections.forEach: each entry's steps touch that symbol alone, so the *)
(* order of the visit does not matter.                                     *)
RECURSIVE closeEach(_, _)
closeEach(m, symbols) ==
    IF symbols = {} THEN m
    ELSE LET symbol == CHOOSE x \in symbols : TRUE
         IN  closeEach(
                 cleanup([m EXCEPT !.sockets = wsClose(@, m.connections[symbol])],
                         symbol),
                 symbols \ {symbol})

close(m) ==
    [closeEach(m, DOMAIN m.connections) EXCEPT
        !.subscriptions = EmptyMap, !.messageCallbacks = EmptyMap]

Close ==
    /\ running
    /\ Becomes(close(This))
    /\ revoked' = revoked \cup
                  UNION {RegsOf(messageCallbacks, x) : x \in DOMAIN messageCallbacks}
    /\ out' = NoOut
    /\ UNCHANGED <<nSubscribes, nRegs, running>>
    /\ UNCHANGED restConnector

getConnectionState(symbol) ==
    IF Has(connections, symbol) THEN sockets[connections[symbol]].readyState
    ELSE "absent"

(* isSubscribed answering for the connection instead of the subscription.  *)
isSubscribedWhileConnected(symbol, streamType) ==
    /\ Has(subscriptions, symbol)
    /\ Has(connections, symbol)
    /\ \E k \in 1..Len(subs[subscriptions[symbol]].streams) :
           subs[subscriptions[symbol]].streams[k] = streamType

isSubscribed(symbol, streamType) ==
    /\ Has(subscriptions, symbol)
    /\ \E k \in 1..Len(subs[subscriptions[symbol]].streams) :
           subs[subscriptions[symbol]].streams[k] = streamType

-----------------------------------------------------------------------------
(* Socket and timer events.                                                *)

Frames ==
    {Frame(<<"ethusdt", "@", "markPrice", "@", "1s">>),
     Frame(<<"ethusdt", "@", "markPrice">>),
     Frame(<<"btcusdt", "@", "trade">>),
     Frame(<<"ethusdt">>),
     Unparseable, NoStreamField}

setupPingInterval(m, symbol, w) ==
    [m EXCEPT !.intervals = @ \cup {w},
              !.pingIntervals = MapSet(@, symbol, w)]

(* onOpen leaving the attempt counter as the reconnects left it.           *)
onOpenKeepingAttempts(m, w) ==
    setupPingInterval(m, m.sockets[w].symbol, w)

onOpen(m, w) ==
    setupPingInterval(
        [m EXCEPT !.subs[m.sockets[w].sub].reconnectAttempts = 0],
        m.sockets[w].symbol, w)

SocketOpen(w) ==
    /\ running
    /\ w \in DOMAIN sockets
    /\ sockets[w].readyState = "CONNECTING"
    /\ LET m == [This EXCEPT !.sockets[w].readyState = "OPEN",
                             !.sockets[w].opened = TRUE]
       IN  Becomes(onOpen(m, w))
    /\ out' = NoOut
    /\ UNCHANGED <<nSubscribes, nRegs, revoked, running>>
    /\ UNCHANGED restConnector

SocketMessage(w, frame) ==
    /\ running
    /\ w \in DOMAIN sockets
    /\ sockets[w].opened
    /\ out' = [onMessage(messageCallbacks, sockets[w].symbol, frame)
                  EXCEPT !.from = w, !.frame = frame]
    /\ UNCHANGED <<connections, pingIntervals, messageCallbacks, subscriptions,
                   subs, sockets, timers, intervals, nSubscribes, nRegs,
                   revoked, running>>
    /\ UNCHANGED restConnector

(* onError taking the error for a trigger of reconnection.                 *)
onErrorReconnecting(m, w) == handleReconnection(m, m.sockets[w].sub)

(* The error listener: a log line.                                         *)
onError(m, w) == m

SocketError(w) ==
    /\ running
    /\ w \in DOMAIN sockets
    /\ Becomes(onError(This, w))
    /\ out' = NoOut
    /\ UNCHANGED <<nSubscribes, nRegs, revoked, running>>
    /\ UNCHANGED restConnector

onClose(m, w) ==
    handleReconnection(cleanup(m, m.sockets[w].symbol), m.sockets[w].sub)

(* The close event is a socket's last: the socket object is dropped, and   *)
(* with it an interval still set on it, which can never ping again.        *)
SocketClose(w) ==
    /\ running
    /\ w \in DOMAIN sockets
    /\ LET m == onClose(This, w)
       IN  /\ Becomes([m EXCEPT
                         !.sockets = MapDelete(@, w),
                         !.intervals = @ \ {w}])
           /\ out' = Effects(m)
    /\ UNCHANGED <<nSubscribes, nRegs, revoked, running>>
    /\ UNCHANGED restConnector

(* The interval callback pinging whatever socket has not yet closed.       *)
pingSentUnlessClosed(readyState) == readyState # "CLOSED"

(* The interval callback's test: ws.readyState === WebSocket.OPEN.         *)
pingSent(readyState) == readyState = "OPEN"

(* A tick of the keepalive interval set on socket w. When the socket is    *)
(* open a ping frame is sent; the send succeeds or fails, and a failure is *)
(* handed to the ping callback, which logs it.                             *)
PingInterval(w, error) ==
    /\ running
    /\ w \in intervals
    /\ out' = IF pingSent(sockets[w].readyState)
              THEN [NoOut EXCEPT !.ping = [to |-> w, error |-> error]]
              ELSE NoOut
    /\ UNCHANGED <<connections, pingIntervals, messageCallbacks, subscriptions,
                   subs, sockets, timers, intervals, nSubscribes, nRegs,
                   revoked, running>>
    /\ UNCHANGED restConnector

(* A reconnect timer expires; an error of its callback is uncaught and     *)
(* ends the process.                                                       *)
expire(m, handle) == [m EXCEPT !.timers = @ \ {handle}]

TimerFires(handle) ==
    /\ running
    /\ handle \in timers
    /\ LET m == connectWebSocket(expire(This, handle), handle.sub)
       IN  /\ Becomes(m)
           /\ running' = ~m.raised
           /\ out' = Effects(m)
    /\ UNCHANGED <<nSubscribes, nRegs, revoked>>
    /\ UNCHANGED restConnector

-----------------------------------------------------------------------------

Next ==
    \/ \E r \in Requests : Subscribe(r.symbol, r.type, r.streams)
    \/ \E symbol \in Symbols : Unsubscribe(symbol)
    \/ Close
    \/ \E w \in DOMAIN sockets : SocketOpen(w)
    \/ \E w \in DOMAIN sockets : SocketError(w)
    \/ \E w \in DOMAIN sockets : SocketClose(w)
    \/ \E handle \in timers : TimerFires(handle)

Spec == Init /\ [][Next]_vars

(* The manager without close(): a symbol loses its subscription through    *)
(* unsubscribe alone.                                                      *)
NextNoClose ==
    \/ \E r \in Requests : Subscribe(r.symbol, r.type, r.streams)
    \/ \E symbol \in Symbols : Unsubscribe(symbol)
    \/ \E w \in DOMAIN sockets : SocketOpen(w)
    \/ \E w \in DOMAIN sockets : SocketError(w)
    \/ \E w \in DOMAIN sockets : SocketClose(w)
    \/ \E handle \in timers : TimerFires(handle)

SpecNoClose == Init /\ [][NextNoClose]_vars

(* The whole lifecycle of one symbol, subscribed with either of its stream *)
(* lists.                                                                  *)
OneSymbolRequests == {r \in Requests : r.symbol = BTC}

NextOneSymbol ==
    \/ \E r \in OneSymbolRequests : Subscribe(r.symbol, r.type, r.streams)
    \/ Unsubscribe(BTC)
    \/ Close
    \/ \E w \in DOMAIN sockets : SocketOpen(w)
    \/ \E w \in DOMAIN sockets : SocketError(w)
    \/ \E w \in DOMAIN sockets : SocketClose(w)
    \/ \E handle \in timers : TimerFires(handle)

SpecOneSymbol == Init /\ [][NextOneSymbol]_vars

(* Registration and delivery, with the sockets' events but no timer expiry. *)
NextRouting ==
    \/ \E r \in RoutingRequests : Subscribe(r.symbol, r.type, r.streams)
    \/ \E symbol \in HandlerSymbols, r \in Registrations :
           OnStreamData(symbol, r.streamType, r.handler)
    \/ \E symbol \in HandlerSymbols : Unsubscribe(symbol)
    \/ Close
    \/ \E w \in DOMAIN sockets : SocketOpen(w)
    \/ \E w \in DOMAIN sockets, frame \in Frames : SocketMessage(w, frame)
    \/ \E w \in DOMAIN sockets : SocketClose(w)

SpecRouting == Init /\ [][NextRouting]_vars


(* Registration over the whole connection lifecycle, timer expiry         *)
(* included, without deliveries.                                           *)
HandlerRegistrations == {Registration(Str("markPrice"), "h1")}

NextHandlers ==
    \/ \E r \in RoutingRequests : Subscribe(r.symbol, r.type, r.streams)
    \/ \E symbol \in HandlerSymbols, r \in HandlerRegistrations :
           OnStreamData(symbol, r.streamType, r.handler)
    \/ \E symbol \in HandlerSymbols : Unsubscribe(symbol)
    \/ Close
    \/ \E w \in DOMAIN sockets : SocketOpen(w)
    \/ \E w \in DOMAIN sockets : SocketError(w)
    \/ \E w \in DOMAIN sockets : SocketClose(w)
    \/ \E handle \in timers : TimerFires(handle)

SpecHandlers == Init /\ [][NextHandlers]_vars

(* Stream-name construction alone: one subscribe call, any symbol, market  *)
(* type and list of up to MaxLen stream kinds.                             *)
RECURSIVE SeqsUpTo(_, _)
SeqsUpTo(S, n) ==
    IF n = 0 THEN {<<>>}
    ELSE LET shorter == SeqsUpTo(S, n - 1)
         IN  shorter \cup {Append(q, x) : q \in shorter, x \in S}

NextUrl ==
    \E symbol \in {BTC, ETH}, type \in MarketTypes,
       streams \in SeqsUpTo(StreamEventTypes, MaxLen) :
        /\ nSubscribes = 0
        /\ Subscribe(symbol, type, streams)

SpecUrl == Init /\ [][NextUrl]_vars

(* One subscribe call whose stream list may hold a string that is no       *)
(* StreamEventType: the parameter's type is erased at run time.            *)
Unsupported == Str("bogus")

NextKinds ==
    \E symbol \in {BTC, ETH}, type \in MarketTypes,
       streams \in SeqsUpTo(StreamEventTypes \cup {Unsupported}, MaxLen) :
        /\ nSubscribes = 0
        /\ Subscribe(symbol, type, streams)

SpecKinds == Init /\ [][NextKinds]_vars

-----------------------------------------------------------------------------
(* Notions the properties below are stated in.                             *)

SocketsOf(symbol) == {w \in DOMAIN sockets : sockets[w].symbol = symbol}
Connected(w) == sockets[w].readyState \in {"CONNECTING", "OPEN"}

(* The sockets created and the timers armed by a step.                     *)
CreatedSockets == {w \in DOMAIN sockets' : w \notin DOMAIN sockets}
ArmedTimers == {h \in timers' : h \notin timers}
ClosedSockets == {w \in DOMAIN sockets : w \notin DOMAIN sockets'}

(* The step is a subscribe call.                                           *)
SubscribeStep == nSubscribes' = nSubscribes + 1
NewSub == subs'[nSubscribes']

-----------------------------------------------------------------------------
(* C1: for every symbol, at most one socket created for it is connecting   *)
(* or open, counting every socket that has not yet closed.                 *)
C1_AtMostOneConnection ==
    \A symbol \in Symbols :
        Cardinality({w \in SocketsOf(symbol) : Connected(w)}) <= 1

(* C2: subscribe on a symbol that has a subscription replaces it (counter  *)
(* 0, the new stream list) and tears the prior connection down: the socket *)
(* recorded before is closed and the prior subscription's timer cancelled. *)
C2_ResubscribeTearsDown ==
    [][(SubscribeStep /\ Has(subscriptions, NewSub.symbol)) =>
         LET symbol == NewSub.symbol
             prior == subscriptions[symbol]
         IN  /\ subscriptions'[symbol] = nSubscribes'
             /\ out'.raised \/ NewSub.reconnectAttempts = 0
             /\ \A w \in SocketsOf(symbol) :
                    (Has(connections, symbol) /\ w = connections[symbol]
                        /\ w \in DOMAIN sockets') => ~Connected(w)'
             /\ \A h \in timers' : h.sub # prior]_vars

(* C3: after unsubscribe(S), while S is not subscribed again, no event     *)
(* arms a reconnect timer for S or creates a socket for S.                 *)
C3_NoReconnectAfterUnsubscribe ==
    [][\A symbol \in Symbols :
         (~Has(subscriptions, symbol) /\ ~Has(subscriptions', symbol)) =>
             /\ \A h \in ArmedTimers : subs'[h.sub].symbol # symbol
             /\ \A w \in CreatedSockets : sockets'[w].symbol # symbol]_vars

(* The last step delivered a frame that parsed and carried a stream name.  *)
Delivered == out.from # NoSocket /\ out.frame.parses /\ out.frame.hasStream

(* The registrations a delivery called, as a set.                          *)
Called == {out.calls[j] : j \in 1..Len(out.calls)}

(* C4: after unsubscribe(S) no handler registered for S before it is       *)
(* invoked again, whatever is delivered on S's old socket and whatever     *)
(* follows, a later subscribe(S) included.                                 *)
C4_NoRevokedHandlerInvoked ==
    \A j \in 1..Len(out.calls) : out.calls[j] \notin revoked

(* A frame of a revoked registration's kind arrives on the old socket of   *)
(* its symbol after the symbol was subscribed again.                       *)
C4_Witness ==
    \E r \in revoked :
        /\ Delivered
        /\ sockets[out.from].symbol = r.symbol
        /\ routedKind(out.frame.stream) = r.kind
        /\ Has(subscriptions, r.symbol)
        /\ sockets[out.from].sub < subscriptions[r.symbol]

(* C5: close() is terminal: when it returns every symbol's connection      *)
(* state is absent, the subscription and handler maps are empty and no     *)
(* reconnect timer is left to fire.                                        *)
C5_CloseIsTerminal ==
    [][Close =>
         /\ \A symbol \in Symbols : getConnectionState(symbol)' = "absent"
         /\ subscriptions' = EmptyMap
         /\ messageCallbacks' = EmptyMap
         /\ timers' = {}]_vars

(* C6: the delay armed while the attempt counter is a, before it is        *)
(* incremented, is RECONNECT_DELAY * 2^a: 5000, 10000, 20000, 40000, 80000. *)
C6_DelayDoubles ==
    [][\A h \in ArmedTimers :
         h.delay = RECONNECT_DELAY * pow2(subs'[h.sub].reconnectAttempts - 1)]_vars

(* Subscription i has used up its attempts: its counter is at the maximum  *)
(* and it has neither a socket nor a pending timer.                        *)
Exhausted(i) ==
    /\ i \in DOMAIN subs
    /\ subs[i].reconnectAttempts = MAX_RECONNECT_ATTEMPTS
    /\ \A h \in timers : h.sub # i
    /\ \A w \in DOMAIN sockets : sockets[w].sub # i

(* C7: every subscription's attempt counter stays in 0..5; a close that    *)
(* arrives while the counter is 5 arms no timer and leaves the counter;    *)
(* and a subscription that has used up its attempts stays so until it is   *)
(* dropped, so that only a fresh subscribe brings reconnects back.         *)
C7_AttemptsBounded ==
    [][/\ \A i \in DOMAIN subs' :
            subs'[i].reconnectAttempts \in 0..MAX_RECONNECT_ATTEMPTS
       /\ \A w \in ClosedSockets :
            subs[sockets[w].sub].reconnectAttempts = MAX_RECONNECT_ATTEMPTS =>
                /\ \A h \in ArmedTimers : h.sub # sockets[w].sub
                /\ sockets[w].sub \in DOMAIN subs' =>
                       subs'[sockets[w].sub].reconnectAttempts =
                           MAX_RECONNECT_ATTEMPTS
       /\ \A i \in DOMAIN subs :
            Exhausted(i) => (i \notin DOMAIN subs' \/ Exhausted(i)')]_vars

(* The sixth close in a row has happened to the only subscription made.    *)
C7_Witness ==
    /\ nSubscribes = 1
    /\ \E symbol \in DOMAIN subscriptions : Exhausted(subscriptions[symbol])

(* C8: a matching message invokes all the handlers registered for its      *)
(* (symbol, kind) once each, in registration order, a throwing handler     *)
(* notwithstanding, and changes no connection or subscription state.       *)
C8_AllHandlersInOrder ==
    [][Delivered' =>
         LET symbol == sockets[out'.from].symbol
             kind == routedKind(out'.frame.stream)
             calls == out'.calls
         IN  /\ {calls[j] : j \in 1..Len(calls)} =
                    {r \in RegsOf(messageCallbacks, symbol) : r.kind = kind}
             /\ \A a, b \in 1..Len(calls) : a < b => calls[a].reg < calls[b].reg
             /\ ~out'.raised
             /\ UNCHANGED <<connections, pingIntervals, messageCallbacks,
                            subscriptions, subs, sockets, timers, intervals>>]_vars

(* Two handlers ran for one message, the first of them a throwing one.     *)
C8_Witness ==
    /\ Delivered
    /\ Len(out.calls) = 2
    /\ Throws(out.calls[1].h)
    /\ ~Throws(out.calls[2].h)

(* A stream name of the form <sym>@<kind> or <sym>@<kind>@<suffix>.        *)
Positional(stream) ==
    /\ Len(stream) \in {3, 5}
    /\ \A p \in 1..Len(stream) : (stream[p] = "@") <=> (p \in {2, 4})

(* C9: a frame whose stream name is <sym>@<kind> or <sym>@<kind>@<suffix>, *)
(* arriving on symbol S's socket, invokes exactly the handlers registered  *)
(* under (S, <kind>), each with the frame's data.                          *)
C9_RoutesByKind ==
    (Delivered /\ Positional(out.frame.stream)) =>
        /\ Called = {r \in RegsOf(messageCallbacks, sockets[out.from].symbol) :
                        r.kind = <<out.frame.stream[3]>>}
        /\ Len(out.args) = Len(out.calls)
        /\ \A j \in 1..Len(out.args) : out.args[j] = out.frame.data

(* ethusdt@markPrice@1s reached a handler while another handler was        *)
(* registered for ETHUSDT under markPrice@1s.                              *)
C9_Witness ==
    /\ Delivered
    /\ out.frame.stream = <<"ethusdt", "@", "markPrice", "@", "1s">>
    /\ out.calls # <<>>
    /\ \E r \in RegsOf(messageCallbacks, ETH) :
           r.kind = <<"markPrice", "@", "1s">>

(* The wire name and the connection target as the interface describes      *)
(* them.                                                                   *)
WireName(symbol, type, kind) ==
    (IF symbol = BTC THEN <<"btcusdt">> ELSE <<"ethusdt">>)
        \o <<"@">> \o kind
        \o (IF type = "futures" /\ kind \in {Str("markPrice"), Str("openInterest")}
            THEN <<"@", "1s">> ELSE <<>>)

RECURSIVE Target(_, _, _)
Target(symbol, type, kinds) ==
    IF kinds = <<>>
    THEN (IF type = "spot" THEN <<"wss://stream.binance.com:9443/ws">>
          ELSE <<"wss://fstream.binance.com/ws">>) \o <<"/">>
    ELSE Target(symbol, type, SubSeq(kinds, 1, Len(kinds) - 1))
            \o (IF Len(kinds) > 1 THEN <<"/">> ELSE <<>>)
            \o WireName(symbol, type, kinds[Len(kinds)])

(* C10: the connection target is the market type's endpoint followed by    *)
(* the wire names <lowercased symbol>@<kind> of the requested kinds, in    *)
(* order, joined by "/", with @1s added to markPrice and openInterest on   *)
(* futures only.                                                           *)
C10_ConnectionTarget ==
    \A w \in DOMAIN sockets :
        LET subscription == subs[sockets[w].sub]
        IN  /\ sockets[w].url = Target(subscription.symbol, subscription.type,
                                       subscription.streams)
            /\ (/\ subscription.symbol = BTC
                /\ subscription.type = "spot"
                /\ subscription.streams = <<Str("trade"), Str("ticker")>>)
                   => sockets[w].url =
                          <<"wss://stream.binance.com:9443/ws", "/",
                            "btcusdt", "@", "trade", "/",
                            "btcusdt", "@", "ticker">>
            /\ (/\ subscription.symbol = ETH
                /\ subscription.type = "futures"
                /\ subscription.streams = <<Str("openInterest")>>)
                   => sockets[w].url =
                          <<"wss://fstream.binance.com/ws", "/",
                            "ethusdt", "@", "openInterest", "@", "1s">>

(* A futures socket was created for a markPrice stream next to another.    *)
C10_Witness ==
    \E w \in DOMAIN sockets :
        /\ subs[sockets[w].sub].type = "futures"
        /\ Len(subs[sockets[w].sub].streams) = 2
        /\ subs[sockets[w].sub].streams[1] = Str("markPrice")
        /\ subs[sockets[w].sub].streams[2] = Str("forceOrder")

(* C11: subscribe with a stream kind outside the supported set fails with  *)
(* an error and leaves the manager unchanged: no subscription, no handler  *)
(* slot, no socket.                                                        *)
C11_UnsupportedKindRejected ==
    [][(SubscribeStep /\ \E k \in 1..Len(NewSub.streams) :
                            NewSub.streams[k] \notin StreamEventTypes) =>
         /\ out'.raised
         /\ UNCHANGED <<connections, subscriptions, messageCallbacks,
                        sockets, timers>>]_vars

(* C12: onStreamData for a symbol without subscription fails with an error *)
(* the caller gets, and registers nothing.                                 *)
C12_UnknownSubscriptionRejected ==
    [][\A symbol \in HandlerSymbols, r \in Registrations :
         (/\ OnStreamData(symbol, r.streamType, r.handler)
          /\ ~Has(subscriptions, symbol)) =>
              /\ out'.raised
              /\ messageCallbacks' = messageCallbacks]_vars

(* C13: close() is idempotent and total: a second close() in a row leaves  *)
(* the state the first one left, close() with no subscription changes      *)
(* nothing, and close() raises no error.                                   *)
C13_CloseIdempotent ==
    [][Close =>
         /\ close(close(This)) = close(This)
         /\ ~close(This).raised
         /\ subscriptions = EmptyMap =>
                UNCHANGED <<connections, pingIntervals, messageCallbacks,
                            subscriptions, subs, sockets, timers, intervals>>]_vars

(* C14: unsubscribe(S) on a subscribed symbol closes the socket recorded   *)
(* for S and leaves S without recorded connection, subscription, handler   *)
(* registrations, running keepalive interval and pending reconnect timer.  *)
C14_UnsubscribeRemovesAll ==
    [][\A symbol \in Symbols :
         (Unsubscribe(symbol) /\ Has(subscriptions, symbol)) =>
             /\ Has(connections, symbol) =>
                    sockets'[connections[symbol]].readyState
                        \notin {"CONNECTING", "OPEN"}
             /\ ~Has(connections', symbol)
             /\ ~Has(subscriptions', symbol)
             /\ ~Has(messageCallbacks', symbol)
             /\ ~Has(pingIntervals', symbol)
             /\ \A w \in intervals' : sockets'[w].symbol # symbol
             /\ \A h \in timers' : subs'[h.sub].symbol # symbol]_vars

(* The manager holds nothing under the symbol.                             *)
Unknown(symbol) ==
    /\ ~Has(connections, symbol)
    /\ ~Has(pingIntervals, symbol)
    /\ ~Has(messageCallbacks, symbol)
    /\ ~Has(subscriptions, symbol)

(* C15: unsubscribe(S) for a symbol the manager does not know changes no   *)
(* connection, subscription, handler registration, keepalive interval or   *)
(* reconnect timer of any symbol, and raises no error: in every state the  *)
(* call leaves each field of the manager as it is.                         *)
C15_UnsubscribeUnknownNoOp ==
    \A symbol \in Symbols :
        Unknown(symbol) =>
            /\ unsubscribe(This, symbol) = This
            /\ ~unsubscribe(This, symbol).raised

(* A symbol is unknown while another has a subscription, an open socket    *)
(* with its keepalive interval, and a pending reconnect timer; the last    *)
(* step was observable by its caller as a call that raised nothing.        *)
C15_Witness ==
    /\ Unknown(ETH)
    /\ Has(subscriptions, BTC)
    /\ Has(pingIntervals, BTC)
    /\ \E w \in intervals : sockets[w].readyState = "OPEN"
    /\ timers # {}
    /\ out = NoOut

(* C16: isSubscribed(S, kind) is true exactly when S has a subscription    *)
(* whose stream list holds kind: a subscribe of S sets it to whether the   *)
(* requested list holds kind, unsubscribe(S) and close() make it false,    *)
(* and no other call or event changes it, whatever the connection does.    *)
C16_IsSubscribedFollowsSubscription ==
    [][\A symbol \in Symbols :
         IF SubscribeStep /\ NewSub.symbol = symbol
         THEN \A kind \in StreamEventTypes :
                  isSubscribed(symbol, kind)' <=>
                      \E k \in 1..Len(NewSub.streams) : NewSub.streams[k] = kind
         ELSE /\ ~Has(unsubscribe(This, symbol).subscriptions, symbol)
              /\ ~Has(close(This).subscriptions, symbol)
              /\ IF Has(subscriptions, symbol) /\ ~Has(subscriptions', symbol)
                 THEN Unsubscribe(symbol) \/ Close
                 ELSE \A kind \in StreamEventTypes :
                          isSubscribed(symbol, kind)' <=>
                              isSubscribed(symbol, kind)]_vars

(* A symbol is still reported subscribed after its reconnect attempts are  *)
(* used up, with neither socket nor timer left.                            *)
C16_Witness ==
    /\ nSubscribes = 1
    /\ Has(subscriptions, BTC)
    /\ Exhausted(subscriptions[BTC])
    /\ ~Has(connections, BTC)
    /\ isSubscribed(BTC, Str("ticker"))
    /\ ~isSubscribed(BTC, Str("markPrice"))

(* C17: when the socket of a still-subscribed symbol closes with the       *)
(* attempt counter below the maximum, a new socket is created for the      *)
(* symbol once the armed timer fires, unless unsubscribe, subscribe or     *)
(* close() intervenes: so a subscribed symbol whose counter is below the   *)
(* maximum always has a socket or a pending reconnect timer.               *)
C17_ReconnectStaysScheduled ==
    \A symbol \in DOMAIN subscriptions :
        subs[subscriptions[symbol]].reconnectAttempts < MAX_RECONNECT_ATTEMPTS =>
            \/ SocketsOf(symbol) # {}
            \/ \E h \in timers : subs[h.sub].symbol = symbol

(* C18: getConnectionState(S) is the state of the socket recorded for S,   *)
(* and "absent" exactly when none is recorded: connecting after            *)
(* subscribe(S), open after that socket's open event, absent after its     *)
(* close event until the next connection attempt.                          *)
C18_ConnectionStateFollowsSocket ==
    [][/\ \A symbol \in Symbols :
            (SubscribeStep /\ NewSub.symbol = symbol /\ ~out'.raised) =>
                getConnectionState(symbol)' = "CONNECTING"
       /\ \A symbol \in Symbols : \A w \in SocketsOf(symbol) :
            /\ (/\ w \in DOMAIN sockets'
                /\ sockets[w].readyState = "CONNECTING"
                /\ sockets'[w].readyState = "OPEN"
                /\ Has(subscriptions, symbol)
                /\ subscriptions[symbol] = sockets[w].sub) =>
                    getConnectionState(symbol)' = "OPEN"
            /\ (/\ w \in ClosedSockets
                /\ Has(connections, symbol)
                /\ connections[symbol] = w) =>
                    getConnectionState(symbol)' = "absent"]_vars

(* One handler list continues another: nothing removed, nothing reordered. *)
IsPrefix(s, t) == Len(s) <= Len(t) /\ SubSeq(t, 1, Len(s)) = s

(* C19: no call or event other than unsubscribe(S) and close() removes or  *)
(* reorders a handler registered for (S, kind): open, error and close      *)
(* events, timer expiry, exhaustion and a repeated subscribe(S) leave the  *)
(* existing lists as they are, and a registration only appends.            *)
C19_RegistrationsPersist ==
    [][\A symbol \in DOMAIN messageCallbacks :
         (~Unsubscribe(symbol) /\ ~Close) =>
             /\ Has(messageCallbacks', symbol)
             /\ \A kind \in DOMAIN messageCallbacks[symbol] :
                    /\ Has(messageCallbacks'[symbol], kind)
                    /\ IsPrefix(messageCallbacks[symbol][kind],
                                messageCallbacks'[symbol][kind])
                    /\ nRegs' = nRegs =>
                           messageCallbacks'[symbol][kind] =
                               messageCallbacks[symbol][kind]]_vars

(* A first registration is still in place after the symbol was subscribed  *)
(* again and the current subscription used up its reconnect attempts.      *)
C19_Witness ==
    /\ nSubscribes = 2
    /\ Has(subscriptions, ETH)
    /\ Exhausted(subscriptions[ETH])
    /\ \E r \in RegsOf(messageCallbacks, ETH) : r.reg = 1

(* C20: a failure to create the socket is never surfaced: subscribe does   *)
(* not raise to its caller, and a timer-driven reconnect raises nothing    *)
(* out of the timer callback (which would end the process).                *)
C20_TransportFailureNotSurfaced ==
    /\ ~out.raised
    /\ running

-----------------------------------------------------------------------------
(* Two spellings of one symbol: the map keys are the strings as passed.    *)
btc == Str("btcusdt")

CaseSymbols == {BTC, btc}

CaseRequests ==
    {Request(BTC, "spot", <<Str("trade"), Str("ticker")>>),
     Request(btc, "spot", <<Str("trade"), Str("ticker")>>)}

NextCase ==
    \/ \E r \in CaseRequests : Subscribe(r.symbol, r.type, r.streams)
    \/ \E symbol \in CaseSymbols : Unsubscribe(symbol)
    \/ \E w \in DOMAIN sockets : SocketOpen(w)
    \/ \E w \in DOMAIN sockets : SocketError(w)
    \/ \E w \in DOMAIN sockets : SocketClose(w)
    \/ \E handle \in timers : TimerFires(handle)

SpecCase == Init /\ [][NextCase]_vars

(* C21: subscriptions are identified by symbol case-insensitively: at most *)
(* one subscription, one recorded connection and one handler map exist per *)
(* case-normalized symbol, and isSubscribed and getConnectionState answer  *)
(* alike for spellings that differ only in letter case.                    *)
C21_OneSubscriptionPerNormalizedSymbol ==
    \A s, t \in CaseSymbols :
        toLowerCase(s) = toLowerCase(t) =>
            /\ (Has(subscriptions, s) /\ Has(subscriptions, t)) => s = t
            /\ (Has(connections, s) /\ Has(connections, t)) => s = t
            /\ (Has(messageCallbacks, s) /\ Has(messageCallbacks, t)) => s = t
            /\ getConnectionState(s) = getConnectionState(t)
            /\ \A kind \in StreamEventTypes :
                   isSubscribed(s, kind) <=> isSubscribed(t, kind)


(* The reconnect timers pending for a symbol, whichever subscription       *)
(* object armed them.                                                      *)
TimersOf(symbol) == {h \in timers : subs[h.sub].symbol = symbol}

(* C22: for every symbol, a pending reconnect timer for it and an open     *)
(* connection recorded for it never coexist, a timer armed for a replaced  *)
(* subscription of the symbol included.                                    *)
C22_TimerExcludesOpenConnection ==
    \A symbol \in Symbols :
        getConnectionState(symbol) = "OPEN" => TimersOf(symbol) = {}


(* C23: at most one reconnect timer is pending per symbol, whichever       *)
(* subscription object of the symbol armed it.                             *)
C23_OneTimerPerSymbol ==
    \A symbol \in Symbols : Cardinality(TimersOf(symbol)) <= 1


(* The delay handleReconnection arms while the counter is 0.               *)
FirstDelay == backoffDelay(0 - 1)

(* C24: a socket's open event sets the owning subscription's counter to 0  *)
(* and starts the keepalive interval of its symbol on that socket; so the  *)
(* close of a socket that had opened finds the counter at 0, arms a timer  *)
(* with the first delay and leaves the counter at 1, however many          *)
(* reconnects came before: the maximum never stops such a symbol.          *)
C24_OpenResetsAttempts ==
    [][/\ \A w \in DOMAIN sockets :
            (/\ w \in DOMAIN sockets'
             /\ sockets[w].readyState = "CONNECTING"
             /\ sockets'[w].readyState = "OPEN") =>
                /\ subs'[sockets[w].sub].reconnectAttempts = 0
                /\ Has(pingIntervals', sockets[w].symbol)
                /\ pingIntervals'[sockets[w].symbol] = w
                /\ w \in intervals'
       /\ \A w \in ClosedSockets :
            sockets[w].opened =>
                /\ subs[sockets[w].sub].reconnectAttempts = 0
                /\ [sub |-> sockets[w].sub, delay |-> FirstDelay] \in ArmedTimers
                /\ subs'[sockets[w].sub].reconnectAttempts = 1]_vars

(* The only subscription's socket is open: its counter is 0 and the        *)
(* keepalive interval recorded for the symbol runs on that socket.         *)
C24_Witness ==
    /\ nSubscribes = 1
    /\ Has(subscriptions, BTC)
    /\ Has(connections, BTC)
    /\ sockets[connections[BTC]].readyState = "OPEN"
    /\ sockets[connections[BTC]].sub = subscriptions[BTC]
    /\ subs[subscriptions[BTC]].reconnectAttempts = 0
    /\ Has(pingIntervals, BTC)
    /\ pingIntervals[BTC] = connections[BTC]
    /\ connections[BTC] \in intervals


(* C25: only a socket's close event, or the failure to create a socket,    *)
(* arms a reconnect timer or raises an attempt counter. Any other step, a  *)
(* socket's error event among them, arms nothing and raises no counter;    *)
(* the close of a socket arms at most one timer, for the subscription of   *)
(* that socket, and raises that counter by at most one; a failed creation  *)
(* leaves no socket behind and arms at most one timer.                     *)
C25_CloseIsSingleTrigger ==
    [][/\ (ClosedSockets = {} /\ ~out'.raised) =>
            /\ ArmedTimers = {}
            /\ \A i \in DOMAIN subs' :
                   i \in DOMAIN subs =>
                       subs'[i].reconnectAttempts <= subs[i].reconnectAttempts
       /\ \A w \in ClosedSockets :
            /\ ClosedSockets = {w}
            /\ Cardinality(ArmedTimers) <= 1
            /\ \A h \in ArmedTimers : h.sub = sockets[w].sub
            /\ \A i \in DOMAIN subs' :
                   i \in DOMAIN subs =>
                       subs'[i].reconnectAttempts <=
                           subs[i].reconnectAttempts +
                               (IF i = sockets[w].sub THEN 1 ELSE 0)
       /\ out'.raised =>
            /\ CreatedSockets = {}
            /\ Cardinality(ArmedTimers) <= 1]_vars

(* The only socket made so far has closed, after it had been created       *)
(* without error: one timer is pending, of its subscription, and the       *)
(* counter is 1.                                                           *)
C25_Witness ==
    /\ nSubscribes = 1
    /\ sockets = EmptyMap
    /\ ~out.raised
    /\ \E h \in timers :
           /\ timers = {h}
           /\ subs[h.sub].reconnectAttempts = 1
           /\ subs[h.sub].reconnectTimeout = h
           /\ subs[h.sub].symbol = BTC


(* C26: when a socket's close event has been processed, its symbol has no  *)
(* recorded connection, no keepalive interval recorded or running, and no  *)
(* pending reconnect timer other than the one the event itself armed       *)
(* after the cleanup.                                                      *)
C26_CloseCleansUp ==
    [][\A w \in ClosedSockets :
         /\ ~Has(connections', sockets[w].symbol)
         /\ ~Has(pingIntervals', sockets[w].symbol)
         /\ \A v \in intervals' : sockets'[v].symbol # sockets[w].symbol
         /\ \A h \in timers' :
                subs'[h.sub].symbol = sockets[w].symbol => h \in ArmedTimers]_vars


(* Two symbols side by side over the whole lifecycle.                      *)
TwoSymbolRequests ==
    {Request(BTC, "spot", <<Str("trade"), Str("ticker")>>),
     Request(ETH, "futures", <<Str("markPrice")>>)}

NextTwoSymbols ==
    \/ \E r \in TwoSymbolRequests : Subscribe(r.symbol, r.type, r.streams)
    \/ \E symbol \in {BTC, ETH} : Unsubscribe(symbol)
    \/ Close
    \/ \E w \in DOMAIN sockets : SocketOpen(w)
    \/ \E w \in DOMAIN sockets : SocketError(w)
    \/ \E w \in DOMAIN sockets : SocketClose(w)
    \/ \E handle \in timers : TimerFires(handle)

SpecTwoSymbols == Init /\ [][NextTwoSymbols]_vars

(* Everything the manager holds for one symbol: the recorded connection,   *)
(* the sockets made for it, the subscription in the map and every          *)
(* subscription object of the symbol with its counter, the handler lists,  *)
(* the keepalive intervals and the pending reconnect timers.               *)
StateOf(symbol) ==
    [connection |-> IF Has(connections, symbol)
                    THEN {connections[symbol]} ELSE {},
     sockets |-> {<<w, sockets[w]>> : w \in SocketsOf(symbol)},
     subscription |-> IF Has(subscriptions, symbol)
                      THEN {subscriptions[symbol]} ELSE {},
     objects |-> {<<i, subs[i]>> :
                     i \in {j \in DOMAIN subs : subs[j].symbol = symbol}},
     handlers |-> IF Has(messageCallbacks, symbol)
                  THEN {messageCallbacks[symbol]} ELSE {},
     pingInterval |-> IF Has(pingIntervals, symbol)
                      THEN {pingIntervals[symbol]} ELSE {},
     intervals |-> {w \in intervals : sockets[w].symbol = symbol},
     timers |-> TimersOf(symbol)]

(* The symbols a step changes something of.                                *)
Changed == {symbol \in Symbols : StateOf(symbol)' # StateOf(symbol)}

(* The reconnect timers that expire in a step: gone from the pending set   *)
(* while their callback created a socket or failed to.                     *)
ExpiredTimers ==
    {h \in timers : h \notin timers' /\ ~SubscribeStep
                    /\ (CreatedSockets # {} \/ out'.raised)}

(* A registration under (symbol, kind), made now, would change the handler *)
(* lists of that symbol and nothing else.                                  *)
RegistrationOnlyFor(symbol, kind) ==
    LET m == onStreamData(This, symbol, kind,
                          [h |-> "h1", reg |-> nRegs + 1,
                           symbol |-> symbol, kind |-> kind])
    IN  /\ [m EXCEPT !.messageCallbacks = messageCallbacks] = This
        /\ DOMAIN m.messageCallbacks = DOMAIN messageCallbacks
        /\ \A other \in DOMAIN messageCallbacks :
               other # symbol => m.messageCallbacks[other] = messageCallbacks[other]

(* C27: per-symbol isolation. A step that changes something of two or more *)
(* symbols is a close() call; a subscribe changes nothing of a symbol      *)
(* other than the one subscribed, and a socket's open or close event and   *)
(* a timer's expiry nothing of a symbol other than the socket's or the     *)
(* timer's own; a handler registration, whenever it is made, changes the   *)
(* handler lists of its own symbol alone.                                  *)
C27_PerSymbolIsolation ==
    [][LET changed == Changed
       IN  /\ Cardinality(changed) >= 2 => Close
           /\ SubscribeStep => changed \subseteq {NewSub.symbol}
           /\ \A w \in ClosedSockets : changed \subseteq {sockets[w].symbol}
           /\ \A w \in DOMAIN sockets :
                (/\ w \in DOMAIN sockets'
                 /\ ~sockets[w].opened
                 /\ sockets'[w].opened) => changed \subseteq {sockets[w].symbol}
           /\ \A h \in ExpiredTimers :
                changed \subseteq {subs[h.sub].symbol}
           /\ \A symbol \in Symbols :
                RegistrationOnlyFor(symbol, Str("markPrice"))]_vars

(* Two symbols are subscribed: one has lost its socket and waits for its   *)
(* reconnect timer, the other has an open socket with its keepalive.       *)
C27_Witness ==
    /\ Has(subscriptions, BTC)
    /\ Has(subscriptions, ETH)
    /\ ~Has(connections, BTC)
    /\ TimersOf(BTC) # {}
    /\ getConnectionState(ETH) = "OPEN"
    /\ Has(pingIntervals, ETH)
    /\ TimersOf(ETH) = {}


-----------------------------------------------------------------------------
(* The lifecycle of one symbol with the ticks of its keepalive intervals.  *)
NextKeepAlive ==
    \/ \E r \in OneSymbolRequests : Subscribe(r.symbol, r.type, r.streams)
    \/ Unsubscribe(BTC)
    \/ Close
    \/ \E w \in DOMAIN sockets : SocketOpen(w)
    \/ \E w \in DOMAIN sockets : SocketClose(w)
    \/ \E handle \in timers : TimerFires(handle)
    \/ \E w \in intervals, error \in BOOLEAN : PingInterval(w, error)

SpecKeepAlive == Init /\ [][NextKeepAlive]_vars

(* C28: a keepalive ping is sent on a socket only while the socket is      *)
(* open, and a tick of the interval, whether it sent nothing or its ping   *)
(* succeeded or failed, changes nothing: no socket is closed, no           *)
(* connection record removed, no timer armed, no counter modified.         *)
C28_ProbeOnlyWhileOpen ==
    [][/\ out'.ping # NoPing =>
            /\ out'.ping.to \in DOMAIN sockets
            /\ sockets[out'.ping.to].readyState = "OPEN"
            /\ out'.ping.to \in intervals
            /\ UNCHANGED <<connections, pingIntervals, messageCallbacks,
                           subscriptions, subs, sockets, timers, intervals>>
       /\ \A w \in intervals, error \in BOOLEAN :
            PingInterval(w, error) =>
                /\ sockets[w].readyState # "OPEN" => out'.ping = NoPing
                /\ ~out'.raised
                /\ UNCHANGED <<connections, pingIntervals, messageCallbacks,
                               subscriptions, subs, sockets, timers,
                               intervals>>]_vars

(* A ping failed on an open socket while the interval of another socket,   *)
(* which is closing, is still running.                                     *)
C28_Witness ==
    /\ out.ping # NoPing
    /\ out.ping.error
    /\ sockets[out.ping.to].readyState = "OPEN"
    /\ \E v \in intervals : sockets[v].readyState = "CLOSING"


-----------------------------------------------------------------------------
(* A frame that can be routed on a symbol's socket: its text parses, it    *)
(* names a stream <sym>@<kind> or <sym>@<kind>@<suffix>, and a handler is  *)
(* registered for the symbol under <kind>.                                 *)
Routable(callbacks, symbol, frame) ==
    /\ frame.parses
    /\ frame.hasStream
    /\ Positional(frame.stream)
    /\ \E r \in RegsOf(callbacks, symbol) : r.kind = <<frame.stream[3]>>

(* C29: a frame that cannot be routed (unparseable, without stream name,   *)
(* with a stream name that has no kind, or with no handler registered for  *)
(* its symbol and kind) invokes no handler, raises no error out of the     *)
(* message event and leaves connections, subscriptions, counters, timers,  *)
(* intervals and the handler registry unchanged.                           *)
C29_UnroutableDropped ==
    [][(/\ out'.from # NoSocket
        /\ ~Routable(messageCallbacks, sockets[out'.from].symbol, out'.frame)) =>
            /\ out'.calls = <<>>
            /\ out'.args = <<>>
            /\ ~out'.raised
            /\ running'
            /\ UNCHANGED <<connections, pingIntervals, messageCallbacks,
                           subscriptions, subs, sockets, timers, intervals>>]_vars

(* A frame without stream name was dropped on the socket of a symbol that  *)
(* has a handler registered and is still connected.                        *)
C29_Witness ==
    /\ out.from # NoSocket
    /\ out.frame = NoStreamField
    /\ out.calls = <<>>
    /\ RegsOf(messageCallbacks, sockets[out.from].symbol) # {}
    /\ getConnectionState(sockets[out.from].symbol) = "OPEN"


-----------------------------------------------------------------------------
(* Connection attempts that never open: each symbol is subscribed at most  *)
(* once, no unsubscribe or close() is called, and every socket errors or   *)
(* closes while connecting. Sockets do close and armed timers do expire.   *)
NextExhaust ==
    \/ \E r \in TwoSymbolRequests :
           /\ ~Has(subscriptions, r.symbol)
           /\ Subscribe(r.symbol, r.type, r.streams)
    \/ \E w \in DOMAIN sockets : SocketError(w)
    \/ \E w \in DOMAIN sockets : SocketClose(w)
    \/ \E handle \in timers : TimerFires(handle)

SpecExhaust ==
    /\ Init
    /\ [][NextExhaust]_vars
    /\ WF_vars(\E w \in DOMAIN sockets : SocketClose(w))
    /\ WF_vars(\E handle \in timers : TimerFires(handle))

(* Nothing is left that could act for the subscribed symbol.               *)
Idle(symbol) ==
    /\ Has(subscriptions, symbol)
    /\ SocketsOf(symbol) = {}
    /\ TimersOf(symbol) = {}

(* The symbol has used up its attempts: no recorded connection, no timer,  *)
(* the counter at the maximum, reported absent and still subscribed.       *)
Quiescent(symbol) ==
    /\ Idle(symbol)
    /\ subs[subscriptions[symbol]].reconnectAttempts = MAX_RECONNECT_ATTEMPTS
    /\ ~Has(connections, symbol)
    /\ getConnectionState(symbol) = "absent"
    /\ \A k \in 1..Len(subs[subscriptions[symbol]].streams) :
           isSubscribed(symbol, subs[subscriptions[symbol]].streams[k])

(* C30: when every connection attempt of a subscribed symbol closes        *)
(* without opening and no call intervenes, reconnection terminates. Each   *)
(* step raises a counter by the number of timers it arms for that          *)
(* subscription, at most one, and a timer leaves the pending set only by   *)
(* expiring into a connection attempt; the symbol is idle only with its    *)
(* counter at MAX_RECONNECT_ATTEMPTS, that is after that many armed and    *)
(* expired timers, and then it is quiescent; a quiescent symbol stays so;  *)
(* and a subscribed symbol eventually is quiescent.                        *)
C30_ReconnectionTerminates ==
    /\ [](\A symbol \in Symbols : Idle(symbol) => Quiescent(symbol))
    /\ [][/\ \A symbol \in Symbols : Quiescent(symbol) => Quiescent(symbol)'
          /\ \A h \in timers :
               h \notin timers' =>
                   \E w \in CreatedSockets : sockets'[w].sub = h.sub
          /\ \A i \in DOMAIN subs :
               /\ Cardinality({h \in ArmedTimers : h.sub = i}) <= 1
               /\ subs'[i].reconnectAttempts =
                      subs[i].reconnectAttempts +
                          Cardinality({h \in ArmedTimers : h.sub = i})]_vars
    /\ \A symbol \in {BTC, ETH} :
           [](Has(subscriptions, symbol) => <>Quiescent(symbol))

(* Both symbols have used up their attempts; the first is still reported   *)
(* subscribed to ticker and not connected.                                 *)
C30_Witness ==
    /\ Quiescent(BTC)
    /\ Quiescent(ETH)
    /\ isSubscribed(BTC, Str("ticker"))
    /\ getConnectionState(BTC) = "absent"
    /\ timers = {}


-----------------------------------------------------------------------------
(* BinanceRestConnector: one request at a time through executeWithRetry.   *)

managerVars == <<connections, pingIntervals, messageCallbacks, subscriptions,
                 subs, sockets, timers, intervals, nSubscribes, nRegs,
                 revoked, running, out>>

(* The public fetch methods with one wrapped operation, and the message of *)
(* the APIError each throws.                                               *)
failureMessage(fetch) ==
    CASE fetch = "getMarketData" -> "Failed to fetch market data"
      [] fetch = "getFuturesOpenInterest" -> "Failed to fetch open interest data"
      [] fetch = "getFuturesFundingRate" -> "Failed to fetch funding rate data"
      [] fetch = "getFuturesLiquidations" -> "Failed to fetch liquidations data"
      [] fetch = "getKlines" -> "Failed to fetch klines data"
      [] fetch = "getExchangeInfo" -> "Failed to fetch exchange info"

FetchMethods ==
    {"getMarketData", "getFuturesOpenInterest", "getFuturesFundingRate",
     "getFuturesLiquidations", "getKlines", "getExchangeInfo"}

(* this.retryDelay * Math.pow(2, retries)                                  *)
retryDelayFor(retries) == HTTP_RETRY_DELAY * pow2(retries)

(* executeWithRetry giving up one failure late (> for >=).                 *)
executeWithRetryOnceMore(request, ok) ==
    LET outcomes == Append(request.outcomes, ok)
    IN  IF ok
        THEN [request EXCEPT !.pc = "idle", !.outcomes = outcomes,
                             !.settled = [kind |-> "value", of |-> Len(outcomes),
                                          message |-> "none"]]
        ELSE IF request.retries > HTTP_MAX_RETRIES
             THEN [request EXCEPT !.pc = "idle", !.outcomes = outcomes,
                                  !.settled = [kind |-> "error",
                                               of |-> Len(outcomes),
                                               message |-> "none"]]
             ELSE [request EXCEPT !.pc = "waiting", !.outcomes = outcomes,
                                  !.delays = Append(@, retryDelayFor(request.retries))]

(* One round of executeWithRetry, when the awaited operation settles: its  *)
(* value is returned; its error is rethrown when the retries are used up,  *)
(* and otherwise the delay of this round is waited for.                    *)
executeWithRetry(request, ok) ==
    LET outcomes == Append(request.outcomes, ok)
    IN  IF ok
        THEN [request EXCEPT !.pc = "idle", !.outcomes = outcomes,
                             !.settled = [kind |-> "value", of |-> Len(outcomes),
                                          message |-> "none"]]
        ELSE IF request.retries >= HTTP_MAX_RETRIES
             THEN [request EXCEPT !.pc = "idle", !.outcomes = outcomes,
                                  !.settled = [kind |-> "error",
                                               of |-> Len(outcomes),
                                               message |-> "none"]]
             ELSE [request EXCEPT !.pc = "waiting", !.outcomes = outcomes,
                                  !.delays = Append(@, retryDelayFor(request.retries))]

(* The catch block of the public method: the error becomes the cause of an *)
(* APIError.                                                               *)
reportFailure(request) ==
    IF request.settled.kind = "error"
    THEN [request EXCEPT !.settled.kind = "APIError",
                         !.settled.message = failureMessage(request.fetch)]
    ELSE request

Fetch(fetch) ==
    /\ restConnector.pc = "idle"
    /\ restConnector.fetches < MaxFetches
    /\ restConnector' = [NoRequest EXCEPT !.pc = "calling", !.fetch = fetch,
                                          !.fetches = restConnector.fetches + 1]
    /\ UNCHANGED managerVars

OperationSettles(ok) ==
    /\ restConnector.pc = "calling"
    /\ restConnector' = reportFailure(executeWithRetry(restConnector, ok))
    /\ UNCHANGED managerVars

(* The delay has passed: executeWithRetry(operation, retries + 1).         *)
RetryTimerFires ==
    /\ restConnector.pc = "waiting"
    /\ restConnector' = [restConnector EXCEPT !.pc = "calling",
                                              !.retries = @ + 1]
    /\ UNCHANGED managerVars

NextRest ==
    \/ \E fetch \in FetchMethods : Fetch(fetch)
    \/ \E ok \in BOOLEAN : OperationSettles(ok)
    \/ RetryTimerFires

SpecRest == Init /\ [][NextRest]_vars

(* C31: executeWithRetry is bounded. The operation is invoked at most      *)
(* HTTP_MAX_RETRIES + 1 = 4 times and never again after an invocation      *)
(* succeeded, whose value is the one returned; the delay waited before     *)
(* retry k is HTTP_RETRY_DELAY * 2^k, that is 1000, 2000, 4000; when the   *)
(* fourth invocation fails too the request ends, with an APIError of the   *)
(* public method whose cause is the error of that last invocation.         *)
C31_RetryBounded ==
    LET r == restConnector
        n == Len(r.outcomes)
    IN  /\ n <= HTTP_MAX_RETRIES + 1
        /\ n <= 4
        /\ \A k \in 1..(n - 1) : ~r.outcomes[k]
        /\ \A k \in 1..Len(r.delays) :
               /\ r.delays[k] = HTTP_RETRY_DELAY * pow2(k - 1)
               /\ k <= 3
               /\ r.delays[k] = <<1000, 2000, 4000>>[k]
        /\ Len(r.delays) = IF r.pc = "calling" THEN n
                           ELSE IF r.pc = "waiting" THEN n
                           ELSE IF n = 0 THEN 0 ELSE n - 1
        /\ r.pc = "calling" => r.retries = n
        /\ r.settled.kind \in {"none", "value", "APIError"}
        /\ (r.settled.kind = "none") <=> (r.pc # "idle" \/ r.fetches = 0)
        /\ r.settled.kind = "value" => r.outcomes[n] /\ r.settled.of = n
        /\ (n = HTTP_MAX_RETRIES + 1 /\ ~r.outcomes[n]) =>
               r.settled.kind = "APIError"
        /\ r.settled.kind = "APIError" =>
               /\ n = HTTP_MAX_RETRIES + 1
               /\ \A k \in 1..n : ~r.outcomes[k]
               /\ r.settled.of = n
               /\ r.settled.message = failureMessage(r.fetch)

(* getFuturesOpenInterest failed four times, after waiting 1000, 2000 and  *)
(* 4000 ms, and threw its APIError.                                        *)
C31_Witness ==
    /\ restConnector.fetch = "getFuturesOpenInterest"
    /\ restConnector.settled.kind = "APIError"
    /\ restConnector.settled.message = "Failed to fetch open interest data"
    /\ restConnector.delays = <<1000, 2000, 4000>>
    /\ Len(restConnector.outcomes) = 4


-----------------------------------------------------------------------------
(* C32: the close event of a socket that is not the one recorded for its   *)
(* symbol leaves the symbol's connection record as it is, and with it the  *)
(* keepalive interval of the recorded socket.                              *)
C32_StaleCloseKeepsRecord ==
    [][\A w \in ClosedSockets :
         (/\ Has(connections, sockets[w].symbol)
          /\ connections[sockets[w].symbol] # w) =>
             /\ Has(connections', sockets[w].symbol)
             /\ connections'[sockets[w].symbol] = connections[sockets[w].symbol]
             /\ (/\ Has(pingIntervals, sockets[w].symbol)
                 /\ pingIntervals[sockets[w].symbol] =
                        connections[sockets[w].symbol]) =>
                    /\ Has(pingIntervals', sockets[w].symbol)
                    /\ pingIntervals'[sockets[w].symbol] =
                           pingIntervals[sockets[w].symbol]
                    /\ pingIntervals[sockets[w].symbol] \in intervals']_vars


(* The keepalive intervals running for a symbol.                           *)
IntervalsOf(symbol) == {w \in intervals : sockets[w].symbol = symbol}

(* C33: every running keepalive interval is the one recorded for its       *)
(* symbol and is set on the socket recorded for that symbol, which has     *)
(* opened; a symbol has at most one running interval, and none while it    *)
(* has no subscription.                                                    *)
C33_NoKeepaliveLeak ==
    /\ \A w \in intervals :
           /\ Has(pingIntervals, sockets[w].symbol)
           /\ pingIntervals[sockets[w].symbol] = w
           /\ Has(connections, sockets[w].symbol)
           /\ connections[sockets[w].symbol] = w
           /\ sockets[w].opened
    /\ \A symbol \in Symbols :
           /\ Cardinality(IntervalsOf(symbol)) <= 1
           /\ ~Has(subscriptions, symbol) => IntervalsOf(symbol) = {}


(* C34: the socket recorded for a subscribed symbol was created from the   *)
(* subscription now stored for the symbol: it carries that subscription's  *)
(* market type and stream list, and connects to its URL.                   *)
C34_RecordedSocketOfCurrentSubscription ==
    \A symbol \in DOMAIN connections :
        Has(subscriptions, symbol) =>
            LET made == subs[sockets[connections[symbol]].sub]
                current == subs[subscriptions[symbol]]
            IN  /\ made.type = current.type
                /\ made.streams = current.streams
                /\ sockets[connections[symbol]].url =
                       connectionUrl(symbol, current.type, current.streams)


-----------------------------------------------------------------------------
(* The subscribe_market_data tool of the server: the request handler's     *)
(* case for it, from the check of the arguments to the catch block that    *)
(* turns whatever was thrown into an APIError.                             *)

(* The value of validatedStreams[0] for an empty list: the key undefined,  *)
(* which is no string.                                                     *)
Undefined == <<"(undefined)">>

isStreamEventType(stream) == stream \in StreamEventTypes

isStreamParams(arguments) == arguments.type \in MarketTypes

(* The handler the tool registers: it logs the data and returns.           *)
LogData == "logData"

(* What the case does to the manager, the manager methods it called in     *)
(* order, and the message of the error the request failed with.            *)
subscribeMarketData(m, i, reg, arguments) ==
    LET symbol == arguments.symbol
        streams == arguments.streams
        first == IF streams = <<>> THEN Undefined ELSE streams[1]
        handler == [h |-> LogData, reg |-> reg, symbol |-> symbol,
                    kind |-> first]
        subscribed == subscribe(m, i, symbol, arguments.type, streams)
    IN  IF ~isStreamParams(arguments)
        THEN [m |-> m, called |-> <<>>,
              error |-> "Invalid stream parameters"]
        ELSE IF \E k \in 1..Len(streams) : ~isStreamEventType(streams[k])
        THEN [m |-> m, called |-> <<>>, error |-> "Invalid stream type"]
        ELSE IF subscribed.raised
        THEN [m |-> subscribed, called |-> <<"subscribe">>,
              error |-> "SyntaxError"]
        ELSE [m |-> onStreamData(subscribed, symbol, first, handler),
              called |-> <<"subscribe", "onStreamData">>,
              error |-> "none"]

SubscribeMarketData(arguments) ==
    /\ running
    /\ nSubscribes < MaxSubscribes
    /\ nRegs < MaxRegs
    /\ LET r == subscribeMarketData(This, nSubscribes + 1, nRegs + 1,
                                    arguments)
       IN  /\ Becomes(r.m)
           /\ nSubscribes' = nSubscribes + (IF r.called = <<>> THEN 0 ELSE 1)
           /\ nRegs' = nRegs + (IF Len(r.called) = 2 THEN 1 ELSE 0)
           /\ out' = [NoOut EXCEPT
                        !.raised = r.error # "none",
                        !.tool = [name |-> "subscribe_market_data",
                                  arguments |-> arguments,
                                  called |-> r.called,
                                  error |-> r.error]]
    /\ UNCHANGED <<revoked, running>>
    /\ UNCHANGED restConnector

(* The requests a client sends: any symbol, a market type that may be none *)
(* of the two, and up to MaxLen stream names of which some may be          *)
(* unsupported.                                                            *)
ToolArguments ==
    {Request(symbol, type, streams) :
        symbol \in {BTC, BAD}, type \in {"spot", "margin"},
        streams \in SeqsUpTo({Str("trade"), Str("ticker"), Unsupported},
                             MaxLen)}

NextTool ==
    \/ \E arguments \in ToolArguments : SubscribeMarketData(arguments)
    \/ \E w \in DOMAIN sockets : SocketOpen(w)
    \/ \E w \in DOMAIN sockets : SocketClose(w)
    \/ \E handle \in timers : TimerFires(handle)

SpecTool == Init /\ [][NextTool]_vars


(* A step that is a subscribe_market_data request.                         *)
ToolStep ==
    /\ out'.tool.name = "subscribe_market_data"
    /\ <<out, nSubscribes>>' # <<out, nSubscribes>>

(* C35: a subscribe_market_data request with a stream name that is not one *)
(* of the eight supported kinds fails with an error, calls neither         *)
(* subscribe nor onStreamData and leaves the manager unchanged; a request  *)
(* whose names are all supported succeeds, calls subscribe and then        *)
(* onStreamData, stores the subscription and adds exactly one handler,     *)
(* under the first requested kind.                                         *)
C35_ToolValidatesBeforeManager ==
    [][ToolStep =>
        LET t == out'.tool
            symbol == t.arguments.symbol
            streams == t.arguments.streams
            before == RegsOf(messageCallbacks, symbol)
            after == RegsOf(messageCallbacks', symbol)
        IN  IF \/ ~isStreamParams(t.arguments)
               \/ \E k \in 1..Len(streams) : streams[k] \notin StreamEventTypes
            THEN /\ t.error # "none"
                 /\ out'.raised
                 /\ t.called = <<>>
                 /\ UNCHANGED <<connections, pingIntervals, messageCallbacks,
                                subscriptions, subs, sockets, timers,
                                intervals>>
            ELSE /\ t.error = "none"
                 /\ ~out'.raised
                 /\ t.called = <<"subscribe", "onStreamData">>
                 /\ Has(subscriptions', symbol)
                 /\ subs'[subscriptions'[symbol]].streams = streams
                 /\ subs'[subscriptions'[symbol]].type = t.arguments.type
                 /\ streams # <<>>
                 /\ before \subseteq after
                 /\ Cardinality(after \ before) = 1
                 /\ \A k \in DOMAIN messageCallbacks'[symbol] :
                        \A j \in 1..Len(messageCallbacks'[symbol][k]) :
                            messageCallbacks'[symbol][k][j] \notin before
                                => k = streams[1]]_vars

=============================================================================
